---- MODULE Spec2Model ----
(***************************************************************************)
(* Verification model of the chug-champ upload backend: the leaderboard    *)
(* listing handlers (whitelabel.js), the admin handlers                    *)
(* (admin-endpoints.js), and the credential caches, the submit handler    *)
(* and the storage handlers of index.js.                                   *)
(*                                                                         *)
(* Strings that the code only compares are TLA+ strings.  Strings that the *)
(* code parses (time_s) are sequences of one-character strings, so that    *)
(* parseFloat is computed over the characters.  Parsed numbers are kept in *)
(* hundredths (fixed point), which is exact for the inputs used.           *)
(***************************************************************************)
EXTENDS Integers, Sequences, FiniteSets, TLC

VARIABLES
    catalog,    \* the catalog platform's metaobjects, in upstream order
    resp,       \* what the last step sent: a response, a catalog request, or NoResp
    now,        \* wall clock, in seconds
    ticks,      \* number of clock advances so far
    shopifyAccessToken,  \* index.js:32, NoToken models null
    tokenExpiresAt,      \* index.js:33, NullDate models null
    issued,     \* number of tokens the token endpoint has issued
    slot,       \* the in-flight requests, one record per slot
    started,    \* number of requests accepted so far
    authData,   \* index.js:31, 0 models null
    authCalls,  \* number of b2.authorize() calls issued so far
    b2slot,     \* the in-flight storage requests
    b2started,  \* number of storage requests accepted so far
    bucket      \* the storage bucket: the file versions under each file name

listVars == <<catalog, resp>>
tokVars == <<now, ticks, shopifyAccessToken, tokenExpiresAt, issued, slot, started>>
b2Vars == <<authData, authCalls, b2slot, b2started, bucket>>
vars == <<catalog, resp, now, ticks, shopifyAccessToken, tokenExpiresAt,
          issued, slot, started, authData, authCalls, b2slot, b2started,
          bucket>>

----------------------------------------------------------------------------
(* Bounds *)

MaxRecords == 3

----------------------------------------------------------------------------
(* JavaScript values *)

Digits == {"0", "1", "2", "3", "4", "5", "6", "7", "8", "9"}

DigitVal(c) ==
    CASE c = "0" -> 0 [] c = "1" -> 1 [] c = "2" -> 2 [] c = "3" -> 3
      [] c = "4" -> 4 [] c = "5" -> 5 [] c = "6" -> 6 [] c = "7" -> 7
      [] c = "8" -> 8 [] c = "9" -> 9

\* String(undefined), what parseFloat sees for a missing property
StrUndefined == <<"u", "n", "d", "e", "f", "i", "n", "e", "d">>

\* numbers: a finite value in hundredths, +Infinity, -Infinity or NaN
Num(v) == [kind |-> "num", val |-> v]
PosInf == [kind |-> "inf", val |-> 1]
NegInf == [kind |-> "inf", val |-> -1]
NaN == [kind |-> "nan", val |-> 0]

\* number of leading digits of s
RECURSIVE DigitRun(_)
DigitRun(s) ==
    IF s = <<>> \/ Head(s) \notin Digits THEN 0 ELSE 1 + DigitRun(Tail(s))

\* value of the digit string s read as an integer
RECURSIVE DigitsValue(_, _)
DigitsValue(s, acc) ==
    IF s = <<>> THEN acc ELSE DigitsValue(Tail(s), 10 * acc + DigitVal(Head(s)))

\* value in hundredths of the digit string s read as a fraction .s
FractionValue(s) ==
    LET d1 == IF Len(s) >= 1 THEN DigitVal(s[1]) ELSE 0
        d2 == IF Len(s) >= 2 THEN DigitVal(s[2]) ELSE 0
    IN  10 * d1 + d2

RECURSIVE SkipSpaces(_)
SkipSpaces(s) ==
    IF s /= <<>> /\ Head(s) = " " THEN SkipSpaces(Tail(s)) ELSE s

\* parseFloat: skips leading white space, reads an optional sign and the
\* longest decimal literal that prefixes the rest; NaN when there is none
parseFloat(str) ==
    LET s0 == SkipSpaces(str)
        neg == s0 /= <<>> /\ Head(s0) = "-"
        s1 == IF s0 /= <<>> /\ Head(s0) \in {"-", "+"} THEN Tail(s0) ELSE s0
        ni == DigitRun(s1)
        s2 == SubSeq(s1, ni + 1, Len(s1))
        dot == s2 /= <<>> /\ Head(s2) = "."
        s3 == IF dot THEN Tail(s2) ELSE <<>>
        nf == IF dot THEN DigitRun(s3) ELSE 0
        mag == 100 * DigitsValue(SubSeq(s1, 1, ni), 0)
                 + FractionValue(SubSeq(s3, 1, nf))
    IN  IF ni + nf = 0 THEN NaN
        ELSE Num(IF neg THEN 0 - mag ELSE mag)

\* ToBoolean of a number: 0 and NaN are falsy
Truthy(x) == ~(x.kind = "nan" \/ (x.kind = "num" /\ x.val = 0))

\* x || Infinity
OrInfinity(x) == IF Truthy(x) THEN x ELSE PosInf

\* sign of a - b; "nan" for Infinity - Infinity and for NaN operands
Minus(a, b) ==
    CASE a.kind = "nan" \/ b.kind = "nan" -> "nan"
      [] a.kind = "inf" /\ b.kind = "inf" ->
            IF a.val = b.val THEN "nan" ELSE IF a.val > b.val THEN "pos" ELSE "neg"
      [] a.kind = "inf" /\ b.kind = "num" -> IF a.val > 0 THEN "pos" ELSE "neg"
      [] a.kind = "num" /\ b.kind = "inf" -> IF b.val > 0 THEN "neg" ELSE "pos"
      [] OTHER -> IF a.val > b.val THEN "pos"
                  ELSE IF a.val < b.val THEN "neg" ELSE "zero"

----------------------------------------------------------------------------
(* Metaobjects and their flattened form *)

\* obj[k] = v on a plain object
Put(obj, k, v) == [x \in DOMAIN obj \cup {k} |-> IF x = k THEN v ELSE obj[x]]

\* fields.forEach(field => { fields[field.key] = field.value })
RECURSIVE FlattenFields(_, _)
FlattenFields(fs, acc) ==
    IF fs = <<>> THEN acc
    ELSE FlattenFields(Tail(fs), Put(acc, Head(fs).key, Head(fs).value))

\* obj.k === s for a string s; a missing property is undefined, never equal
StrictEq(obj, k, s) == k \in DOMAIN obj /\ obj[k] = s

\* the argument parseFloat receives for entry.time_s
TimeArg(entry) ==
    IF "time_s" \in DOMAIN entry THEN entry["time_s"] ELSE StrUndefined

----------------------------------------------------------------------------
(* Upstream catalog: the metaobjects query *)

Min(a, b) == IF a < b THEN a ELSE b

\* metaobjects(type: "beer_leaderboard_entry", first: n): one page, no cursor
Query(first) == SubSeq(catalog, 1, Min(first, Len(catalog)))

ListingPageSize == 250
AdminPageSize == 100

\* the possible results of awaiting the catalog call: a payload with data,
\* a payload with errors, or a rejected promise
UpstreamOutcomes == {"ok", "errors", "throw"}

----------------------------------------------------------------------------
(* whitelabel.js: the public listing handlers *)

\* edges.map(edge => ({ id, handle, ...fields }))
Entry(node) ==
    FlattenFields(node.fields, [id |-> node.id, handle |-> node.handle])

Entries(edges) == [i \in 1..Len(edges) |-> Entry(edges[i])]

\* mutant of FilterByType: hides only the records marked "false"
FilterByTypeNotFalse(entries, leaderboard_type) ==
    SelectSeq(entries, LAMBDA entry:
        StrictEq(entry, "leaderboard_type", leaderboard_type)
        /\ ~StrictEq(entry, "verified", "false"))

FilterByType(entries, leaderboard_type) ==
    SelectSeq(entries, LAMBDA entry:
        StrictEq(entry, "leaderboard_type", leaderboard_type)
        /\ StrictEq(entry, "verified", "true"))

FilterByName(entries, leaderboard_name) ==
    SelectSeq(entries, LAMBDA entry:
        StrictEq(entry, "leaderboard_name", leaderboard_name)
        /\ StrictEq(entry, "verified", "true"))

\* the comparator (a, b) => timeA - timeB
CompareTime(a, b) ==
    LET timeA == OrInfinity(parseFloat(TimeArg(a)))
        timeB == OrInfinity(parseFloat(TimeArg(b)))
    IN  Minus(timeA, timeB)

\* Array.prototype.sort is stable and treats a NaN comparator result as 0;
\* x goes right after the last element that does not compare greater
RECURSIVE InsertSorted(_, _)
InsertSorted(s, x) ==
    IF s = <<>> THEN <<x>>
    ELSE IF CompareTime(s[Len(s)], x) = "pos"
         THEN Append(InsertSorted(SubSeq(s, 1, Len(s) - 1), x), s[Len(s)])
         ELSE Append(s, x)

RECURSIVE SortByTime(_)
SortByTime(s) ==
    IF s = <<>> THEN <<>>
    ELSE InsertSorted(SortByTime(SubSeq(s, 1, Len(s) - 1)), s[Len(s)])

\* the handler after it has its token: outcome is the result of the fetch
getLeaderboardEntries(leaderboard_type, outcome, edges) ==
    IF leaderboard_type = "" THEN [status |-> 400]
    ELSE IF outcome = "throw" THEN [status |-> 500, caught |-> TRUE]
    ELSE IF outcome = "errors" THEN [status |-> 500, caught |-> FALSE]
    ELSE LET filteredEntries ==
                 SortByTime(FilterByType(Entries(edges), leaderboard_type))
         IN  [status |-> 200, count |-> Len(filteredEntries),
              entries |-> filteredEntries]

getLeaderboardEntriesByName(leaderboard_name, outcome, edges) ==
    IF leaderboard_name = "" THEN [status |-> 400]
    ELSE IF outcome = "throw" THEN [status |-> 500, caught |-> TRUE]
    ELSE IF outcome = "errors" THEN [status |-> 500, caught |-> FALSE]
    ELSE LET filteredEntries ==
                 SortByTime(FilterByName(Entries(edges), leaderboard_name))
         IN  [status |-> 200, count |-> Len(filteredEntries),
              entries |-> filteredEntries]

----------------------------------------------------------------------------
(* admin-endpoints.js: GET /admin/unverified *)

\* mutant of IsUnverified: anything but "true" counts as unverified
IsUnverifiedNotTrue(edge) ==
    LET hits == SelectSeq(edge.fields, LAMBDA f: f.key = "verified")
    IN  hits = <<>> \/ hits[1].value /= "true"

\* fields.find(f => f.key === 'verified')?.value === 'false'
IsUnverified(edge) ==
    LET hits == SelectSeq(edge.fields, LAMBDA f: f.key = "verified")
    IN  hits /= <<>> /\ hits[1].value = "false"

\* submissions.find(...): the first match, <<>> for undefined
FindUnverified(submissions) ==
    LET hits == SelectSeq(submissions, IsUnverified)
    IN  IF hits = <<>> THEN <<>> ELSE <<hits[1]>>

EmptyObject == [x \in {} |-> 0]

getUnverifiedSubmission(outcome, edges) ==
    IF outcome = "throw" THEN [status |-> 500]
    ELSE IF outcome = "errors" THEN [status |-> 400]
    ELSE LET unverified == FindUnverified(edges)
         IN  IF unverified = <<>> THEN [status |-> 404]
             ELSE [status |-> 200, id |-> unverified[1].id,
                   handle |-> unverified[1].handle,
                   fields |-> FlattenFields(unverified[1].fields, EmptyObject)]

----------------------------------------------------------------------------
(* Record sets for the listing handlers *)

T0 == <<"0">>
T92 == <<"9", ".", "2">>
T105 == <<"1", "0", ".", "5">>
Tabc == <<"a", "b", "c">>

Times == {T0, T92, T105, Tabc}

FieldIf(cond, k, v) == IF cond THEN <<[key |-> k, value |-> v]>> ELSE <<>>

\* the field list of one record: whitelabel records ("WL") carry a
\* leaderboard_name, verified and time_s may be missing
MkFields(type, ver, hasTime, time) ==
    <<[key |-> "leaderboard_type", value |-> type]>>
    \o FieldIf(type = "WL", "leaderboard_name", "RAB")
    \o FieldIf(ver /= "", "verified", ver)
    \o FieldIf(hasTime, "time_s", time)

\* verified records with every time_s, and one record for every other
\* value of verified ("" stands for a record without the field)
Pool ==
    {MkFields(type, "true", TRUE, t) : type \in {"RAB", "WL"}, t \in Times}
    \cup {MkFields(type, "true", FALSE, T0) : type \in {"RAB", "WL"}}
    \cup {MkFields(type, ver, TRUE, T92) :
              type \in {"RAB", "WL"}, ver \in {"false", "TRUE", ""}}

\* approved records that a verify mutation for the record has been applied
Node(i, fs) == [id |-> i, handle |-> i, fields |-> fs, approved |-> FALSE]

MkCatalog(fss) == [i \in 1..Len(fss) |-> Node(i, fss[i])]

PathParams == {"RAB", "WL", ""}

NoResp == [op |-> "none"]

----------------------------------------------------------------------------
(* Initial values of the state the listing specification leaves alone *)

NullDate == -1000000

\* an access token: the number of the exchange that issued it and the time
\* up to which the catalog platform honours it; NoToken models null
NoToken == [id |-> 0, exp |-> 0]

NumSlots == 2

Slots == 1..NumSlots

\* a request slot holds one handler in flight: pc is its position ("idle",
\* "exchange" while it awaits the token endpoint, "catalog" while it awaits
\* the catalog), the next fields are its locals, and req records what the
\* request was and did, for the properties
NoReq ==
    [exchanges |-> 0, calls |-> 0, absent |-> FALSE, blank |-> FALSE,
     hadVerified |-> FALSE, failure |-> "none"]

IdleSlot ==
    [pc |-> "idle", kind |-> "none", id |-> 0, fields |-> <<>>, param |-> "",
     malformed |-> FALSE, sentAt |-> 0, req |-> NoReq]

InitTok ==
    /\ now = 0
    /\ ticks = 0
    /\ shopifyAccessToken = NoToken
    /\ tokenExpiresAt = NullDate
    /\ issued = 0
    /\ slot = [r \in Slots |-> IdleSlot]
    /\ started = 0

\* a storage session is the number of the authorize call that returned it;
\* NoSession models null
NoSession == 0

\* file names, in the order the storage platform lists them
Keys == {1, 2}

\* const file = ... before it is assigned
NoFile == [fileName |-> 0, fileId |-> 0]

\* a storage request slot: pc is "idle" or the storage call the handler
\* awaits, key and file are its locals, n is the number of the request,
\* call the number of its authorize call, authorizes and deletes how many
\* authorize and delete-file-version calls it has issued
IdleB2 ==
    [pc |-> "idle", kind |-> "none", key |-> 0, file |-> NoFile, n |-> 0,
     call |-> 0, authorizes |-> 0, deletes |-> 0]

\* one file, uploaded earlier, is in the bucket under the name 2
InitB2 ==
    /\ authData = NoSession
    /\ authCalls = 0
    /\ b2slot = [r \in Slots |-> IdleB2]
    /\ b2started = 0
    /\ bucket = [k \in Keys |-> IF k = 2 THEN {0} ELSE {}]

----------------------------------------------------------------------------
(* SpecList: the listing and admin-scan handlers applied to every catalog  *)
(* of at most MaxRecords records drawn from Pool.  The handlers are        *)
(* stateless and read-only, so each behaviour handles one request and resp *)
(* holds its response.                                                     *)

InitList ==
    /\ catalog \in {MkCatalog(fss) :
                      fss \in UNION {[1..n -> Pool] : n \in 0..MaxRecords}}
    /\ resp = NoResp
    /\ InitTok
    /\ InitB2

ListByType ==
    /\ resp = NoResp
    /\ \E p \in PathParams, outcome \in UpstreamOutcomes:
          resp' = [op |-> "byType", param |-> p, upstream |-> outcome,
                   out |-> getLeaderboardEntries(p, outcome, Query(ListingPageSize))]
    /\ UNCHANGED <<catalog, tokVars, b2Vars>>

ListByName ==
    /\ resp = NoResp
    /\ \E p \in PathParams, outcome \in UpstreamOutcomes:
          resp' = [op |-> "byName", param |-> p, upstream |-> outcome,
                   out |-> getLeaderboardEntriesByName(p, outcome, Query(ListingPageSize))]
    /\ UNCHANGED <<catalog, tokVars, b2Vars>>

ScanUnverified ==
    /\ resp = NoResp
    /\ \E outcome \in UpstreamOutcomes:
          resp' = [op |-> "unverified", upstream |-> outcome,
                   out |-> getUnverifiedSubmission(outcome, Query(AdminPageSize))]
    /\ UNCHANGED <<catalog, tokVars, b2Vars>>

NextList == ListByType \/ ListByName \/ ScanUnverified

SpecList == InitList /\ [][NextList]_vars

----------------------------------------------------------------------------
(* index.js: the catalog token cache *)

MaxRequests == 2
MaxTicks == 2

\* clock advances: longer than the safety margin, longer than a full lease
Deltas == {400, 86400}

DefaultExpiresIn == 86399
SafetyMargin == 300

\* data.expires_in of a token response: a number, or the property is absent
ExpiresInReplies ==
    {[present |-> FALSE, val |-> 0]}
    \cup {[present |-> TRUE, val |-> v] : v \in {0, 200, 1000}}

\* the results of awaiting the token exchange: a success status, a
\* non-success status, or a rejected fetch
TokenOutcomes == {"ok", "status", "reject"}

\* mutant of CacheHit: a cached token is used whatever its age
CacheHitAnyAge == shopifyAccessToken /= NoToken /\ tokenExpiresAt /= NullDate

\* shopifyAccessToken && tokenExpiresAt && new Date() < tokenExpiresAt
CacheHit ==
    shopifyAccessToken /= NoToken /\ tokenExpiresAt /= NullDate /\ now < tokenExpiresAt

\* mutant of ExpiresIn: the default only replaces an absent expires_in
ExpiresInIfAbsent(e) == IF e.present THEN e.val ELSE DefaultExpiresIn

\* data.expires_in || 86399
ExpiresIn(e) == IF e.present /\ e.val /= 0 THEN e.val ELSE DefaultExpiresIn

\* mutant of TokenExpiry: an expiry that is already cached is kept
TokenExpiryKeepFirst(e) ==
    IF tokenExpiresAt /= NullDate THEN tokenExpiresAt
    ELSE now + (ExpiresIn(e) - SafetyMargin)

\* new Date(Date.now() + (expiresIn - 300) * 1000)
TokenExpiry(e) == now + (ExpiresIn(e) - SafetyMargin)

\* how long the token endpoint honours a token it issued
Lifetime(e) == IF e.present THEN e.val ELSE DefaultExpiresIn

\* no exchange preceded the catalog request
NoLease == [exchanged |-> FALSE, e |-> [present |-> FALSE, val |-> 0]]

\* the handler of slot r sends its catalog request with the token it got;
\* lease tells whether an exchange has just returned it, and with what reply
RequestCatalog(r, s, token, lease) ==
    /\ slot' = [slot EXCEPT ![r] =
                  [s EXCEPT !.pc = "catalog", !.sentAt = 0, !.req.calls = @ + 1]]
    /\ resp' = [op |-> "send", kind |-> s.kind, token |-> token, lease |-> lease]

\* const token = await getShopifyAccessToken(), up to its first suspension:
\* a cache hit returns the cached token and the handler goes on to its
\* catalog request; a miss sends the exchange and waits
AcquireToken(r, s) ==
    /\ IF CacheHit
       THEN RequestCatalog(r, s, shopifyAccessToken, NoLease)
       ELSE /\ slot' = [slot EXCEPT ![r] =
                          [s EXCEPT !.pc = "exchange", !.sentAt = now,
                                    !.req.exchanges = @ + 1]]
            /\ resp' = NoResp
    /\ UNCHANGED <<shopifyAccessToken, tokenExpiresAt, issued>>

\* res.status(...).json(...): the handler of slot r (s, when it never got
\* into the slot) is over; resp keeps the response and what the request did
Respond(r, s, upstream, out) ==
    /\ slot' = [slot EXCEPT ![r] = IdleSlot]
    /\ resp' = [op |-> s.kind, param |-> s.param, id |-> s.id,
                upstream |-> upstream, out |-> out, req |-> s.req]

\* a request is accepted into the first free slot
CanStart(r) ==
    /\ slot[r].pc = "idle"
    /\ \A q \in Slots: q < r => slot[q].pc /= "idle"
    /\ started < MaxRequests

\* mutant of TokenResponse: a failed exchange drops the cached token
TokenResponseClearing(r) ==
    /\ slot[r].pc = "exchange"
    /\ \E outcome \in TokenOutcomes:
          IF outcome = "ok"
          THEN \E e \in ExpiresInReplies, issuedAt \in {slot[r].sentAt, now}:
                  LET tok == [id |-> issued + 1, exp |-> issuedAt + Lifetime(e)]
                  IN  /\ issued' = issued + 1
                      /\ shopifyAccessToken' = tok
                      /\ tokenExpiresAt' = TokenExpiry(e)
                      /\ RequestCatalog(r, slot[r], tok,
                                        [exchanged |-> TRUE, e |-> e])
          ELSE /\ Respond(r, [slot[r] EXCEPT !.req.failure = outcome], "none",
                          [status |-> 500])
               /\ shopifyAccessToken' = NoToken
               /\ tokenExpiresAt' = NullDate
               /\ UNCHANGED issued
    /\ UNCHANGED <<catalog, now, ticks, started, b2Vars>>

\* the exchange of request r completes
TokenResponse(r) ==
    /\ slot[r].pc = "exchange"
    /\ \E outcome \in TokenOutcomes:
          IF outcome = "ok"
          THEN \E e \in ExpiresInReplies, issuedAt \in {slot[r].sentAt, now}:
                  LET tok == [id |-> issued + 1, exp |-> issuedAt + Lifetime(e)]
                  IN  /\ issued' = issued + 1
                      /\ shopifyAccessToken' = tok
                      /\ tokenExpiresAt' = TokenExpiry(e)
                      /\ RequestCatalog(r, slot[r], tok,
                                        [exchanged |-> TRUE, e |-> e])
          ELSE /\ Respond(r, [slot[r] EXCEPT !.req.failure = outcome], "none",
                          [status |-> 500])
               /\ UNCHANGED <<shopifyAccessToken, tokenExpiresAt, issued>>
    /\ UNCHANGED <<catalog, now, ticks, started, b2Vars>>

Tick ==
    /\ ticks < MaxTicks
    /\ \E d \in Deltas: now' = now + d
    /\ ticks' = ticks + 1
    /\ resp' = NoResp
    /\ UNCHANGED <<catalog, shopifyAccessToken, tokenExpiresAt, issued,
                   slot, started, b2Vars>>

----------------------------------------------------------------------------
(* index.js: POST /submit-chug *)

RequiredKeys == {"handle_text", "container", "leaderboard_type", "time_s", "volume_oz"}
VideoKeys == {"video_url", "video_upload_url"}

\* the value a form carries under key k
FormValue(k) ==
    CASE k = "time_s" -> T92
      [] k = "leaderboard_type" -> "RAB"
      [] k = "video_url" -> "link"
      [] k = "video_upload_url" -> "upload"
      [] k = "verified" -> "true"
      [] OTHER -> "text"

Form(keys) == [k \in keys |-> FormValue(k)]

FullForm == Form(RequiredKeys \cup {"video_url", "beer_style"})

\* request bodies: every combination of missing required and video keys,
\* forms with the optional keys and a caller-supplied verified, a form
\* without beer_style, and forms with an empty required value
SubmitBodies ==
    {Form(req \cup vid \cup {"beer_style"}) : req \in SUBSET RequiredKeys, vid \in SUBSET VideoKeys}
    \cup {Form(DOMAIN FullForm \cup {"handle_url", "location", "verified"}),
          Form(DOMAIN FullForm \ {"beer_style"}),
          [FullForm EXCEPT !["time_s"] = <<>>],
          [FullForm EXCEPT !["handle_text"] = ""],
          [FullForm EXCEPT !["video_url"] = ""],
          [Form(DOMAIN FullForm \cup {"video_upload_url"}) EXCEPT !["video_upload_url"] = ""]}

\* v is the empty string (time_s is kept as a character sequence)
IsEmpty(k, v) == IF k = "time_s" THEN v = <<>> ELSE v = ""

\* !req.body[k]: the key is missing or its value is the empty string
Falsy(body, k) == k \notin DOMAIN body \/ IsEmpty(k, body[k])

\* mutant of SubmitError: only missing keys are rejected, not empty values
SubmitErrorMissingOnly(body) ==
    IF {"handle_text", "container", "leaderboard_type"} \ DOMAIN body /= {}
    THEN "handle_text, container, and leaderboard_type required"
    ELSE IF {"video_url", "video_upload_url"} \cap DOMAIN body = {}
    THEN "Either video_url or video_upload_url required"
    ELSE IF "time_s" \notin DOMAIN body THEN "time_s is required"
    ELSE IF "volume_oz" \notin DOMAIN body THEN "volume_oz is required"
    ELSE ""

\* the four validation checks, in order; "" when the body passes
SubmitError(body) ==
    IF Falsy(body, "handle_text") \/ Falsy(body, "container")
       \/ Falsy(body, "leaderboard_type")
    THEN "handle_text, container, and leaderboard_type required"
    ELSE IF Falsy(body, "video_url") /\ Falsy(body, "video_upload_url")
    THEN "Either video_url or video_upload_url required"
    ELSE IF Falsy(body, "time_s") THEN "time_s is required"
    ELSE IF Falsy(body, "volume_oz") THEN "volume_oz is required"
    ELSE ""

\* videoUploadUrl || videoUrl
FinalVideoUrl(body) ==
    IF ~Falsy(body, "video_upload_url") THEN body["video_upload_url"]
    ELSE body["video_url"]

\* mutant of SubmitFields: a verified value in the form is passed through
SubmitFieldsTrustForm(body) ==
    <<[key |-> "handle_text", value |-> body["handle_text"]],
      [key |-> "leaderboard_type", value |-> body["leaderboard_type"]],
      [key |-> "container", value |-> body["container"]],
      [key |-> "video_url", value |-> FinalVideoUrl(body)],
      [key |-> "time_s", value |-> body["time_s"]],
      [key |-> "volume_oz", value |-> body["volume_oz"]],
      [key |-> "verified",
       value |-> IF "verified" \in DOMAIN body THEN body["verified"] ELSE "false"]>>

\* the field list of the create mutation; JSON.stringify drops the value of
\* beer_style when the form has none, which SubmitMalformed records
SubmitFields(body) ==
    <<[key |-> "handle_text", value |-> body["handle_text"]],
      [key |-> "leaderboard_type", value |-> body["leaderboard_type"]]>>
    \o FieldIf("beer_style" \in DOMAIN body, "beer_style", "text")
    \o <<[key |-> "container", value |-> body["container"]],
         [key |-> "video_url", value |-> FinalVideoUrl(body)],
         [key |-> "time_s", value |-> body["time_s"]],
         [key |-> "volume_oz", value |-> body["volume_oz"]],
         [key |-> "time_to_rim_s", value |-> "0.25"],
         [key |-> "time_to_setdown_s", value |-> "0.25"],
         [key |-> "splash_pct", value |-> "0.0"],
         [key |-> "foam_pct", value |-> "0.0"],
         [key |-> "date_iso", value |-> now],
         [key |-> "verified", value |-> "false"]>>
    \o FieldIf(~Falsy(body, "handle_url"), "handle_url", "text")
    \o FieldIf(~Falsy(body, "location"), "location", "text")

SubmitMalformed(body) == "beer_style" \notin DOMAIN body

\* some required key, or both video keys, are not in the form
SomeAbsent(body) ==
    \/ \E k \in RequiredKeys: k \notin DOMAIN body
    \/ VideoKeys \cap DOMAIN body = {}

\* every key asked for is in the form, but a required value is empty or no
\* video value is non-empty
SomeEmpty(body) ==
    /\ ~SomeAbsent(body)
    /\ \/ \E k \in RequiredKeys: IsEmpty(k, body[k])
       \/ \A k \in VideoKeys \cap DOMAIN body: IsEmpty(k, body[k])

SubmitChug(r) ==
    /\ CanStart(r)
    /\ started' = started + 1
    /\ \E body \in SubmitBodies:
          LET s == [IdleSlot EXCEPT
                       !.kind = "submit",
                       !.req.absent = SomeAbsent(body),
                       !.req.blank = SomeEmpty(body),
                       !.req.hadVerified = "verified" \in DOMAIN body]
          IN  IF SubmitError(body) /= ""
              THEN /\ Respond(r, s, "none", [status |-> 400])
                   /\ UNCHANGED <<shopifyAccessToken, tokenExpiresAt, issued>>
              ELSE AcquireToken(r, [s EXCEPT !.fields = SubmitFields(body),
                                             !.malformed = SubmitMalformed(body)])
    /\ UNCHANGED <<catalog, now, ticks, b2Vars>>

----------------------------------------------------------------------------
(* admin-endpoints.js: PATCH /admin/submission/:id, POST /admin/verify/:id *)

\* JSON values of a request body
JsString(x) == [t |-> "string", s |-> x, b |-> FALSE]
JsBoolean(x) == [t |-> "boolean", s |-> "", b |-> x]

\* String(value)
String(v) == IF v.t = "boolean" THEN (IF v.b THEN "true" ELSE "false") ELSE v.s

\* request bodies, as key/value lists in the order of the JSON text
UpdateBodies ==
    {<<>>,
     <<[key |-> "verified", value |-> JsString("true")]>>,
     <<[key |-> "verified", value |-> JsBoolean(TRUE)],
       [key |-> "handle_text", value |-> JsString("edited")]>>,
     <<[key |-> "handle_text", value |-> JsString("edited")],
       [key |-> "verified", value |-> JsString("false")]>>}

\* mutant of UpdateFields: the body is sent as it came
UpdateFieldsKeepVerified(updates) ==
    [i \in 1..Len(updates) |->
        [key |-> updates[i].key, value |-> String(updates[i].value)]]

\* delete updates.verified; Object.entries(updates).map(...)
UpdateFields(updates) ==
    LET kept == SelectSeq(updates, LAMBDA u: u.key /= "verified")
    IN  [i \in 1..Len(kept) |->
            [key |-> kept[i].key, value |-> String(kept[i].value)]]

\* the ids a caller can name: the records there are, and none (0)
KnownIds == 0..Len(catalog)

updateSubmission(r) ==
    /\ CanStart(r)
    /\ started' = started + 1
    /\ \E id \in KnownIds, updates \in UpdateBodies:
          LET s == [IdleSlot EXCEPT
                       !.kind = "update", !.id = id,
                       !.req.hadVerified = \E i \in 1..Len(updates):
                                               updates[i].key = "verified"]
          IN  IF id = 0
              THEN /\ Respond(r, s, "none", [status |-> 400])
                   /\ UNCHANGED <<shopifyAccessToken, tokenExpiresAt, issued>>
              ELSE AcquireToken(r, [s EXCEPT !.fields = UpdateFields(updates)])
    /\ UNCHANGED <<catalog, now, ticks, b2Vars>>

\* fields: [{ key: 'verified', value: 'true' }]
VerifyFields == <<[key |-> "verified", value |-> "true"]>>

verifySubmission(r) ==
    /\ CanStart(r)
    /\ started' = started + 1
    /\ \E id \in KnownIds:
          LET s == [IdleSlot EXCEPT !.kind = "verify", !.id = id]
          IN  IF id = 0
              THEN /\ Respond(r, s, "none", [status |-> 400])
                   /\ UNCHANGED <<shopifyAccessToken, tokenExpiresAt, issued>>
              ELSE AcquireToken(r, [s EXCEPT !.fields = VerifyFields])
    /\ UNCHANGED <<catalog, now, ticks, b2Vars>>

----------------------------------------------------------------------------
(* The read handlers as requests: they take a token like the others *)

ReadKinds == {"byType", "byName", "unverified"}

ReadParams == {"RAB", ""}

\* GET /leaderboard/:leaderboard_type and GET /whitelabel/name/:leaderboard_name
ListRequest(r, kind) ==
    /\ CanStart(r)
    /\ started' = started + 1
    /\ \E p \in ReadParams:
          LET s == [IdleSlot EXCEPT !.kind = kind, !.param = p]
          IN  IF p = ""
              THEN /\ Respond(r, s, "none", [status |-> 400])
                   /\ UNCHANGED <<shopifyAccessToken, tokenExpiresAt, issued>>
              ELSE AcquireToken(r, s)
    /\ UNCHANGED <<catalog, now, ticks, b2Vars>>

\* GET /admin/unverified
UnverifiedRequest(r) ==
    /\ CanStart(r)
    /\ started' = started + 1
    /\ AcquireToken(r, [IdleSlot EXCEPT !.kind = "unverified"])
    /\ UNCHANGED <<catalog, now, ticks, b2Vars>>

----------------------------------------------------------------------------
(* The catalog platform applies a request and the handler responds *)

\* metaobjectUpdate: a supplied key replaces the value of the field with that
\* key, or adds the field; the other fields are left alone
RECURSIVE SetFields(_, _)
SetFields(fs, upd) ==
    IF upd = <<>> THEN fs
    ELSE LET f == Head(upd)
             has == \E i \in 1..Len(fs): fs[i].key = f.key
             fs1 == IF has
                    THEN [i \in 1..Len(fs) |-> IF fs[i].key = f.key THEN f ELSE fs[i]]
                    ELSE Append(fs, f)
         IN  SetFields(fs1, Tail(upd))

\* the results of awaiting a mutation: as for a query, and "lost" when the
\* platform applied the mutation but the handler's await rejected
MutationOutcomes == UpstreamOutcomes \cup {"lost"}

\* status of a mutation handler for each result of the catalog call
MutationStatus(outcome) ==
    CASE outcome = "ok" -> 200
      [] outcome = "errors" -> 400
      [] OTHER -> 500

\* metaobjectCreate
CreateResponse(r) ==
    /\ slot[r].pc = "catalog"
    /\ slot[r].kind = "submit"
    /\ \E outcome \in MutationOutcomes:
          /\ slot[r].malformed => outcome \in {"errors", "throw"}
          /\ catalog' = IF outcome \in {"ok", "lost"}
                        THEN Append(catalog, Node(Len(catalog) + 1, slot[r].fields))
                        ELSE catalog
          /\ Respond(r, slot[r], outcome,
                     IF outcome = "ok"
                     THEN [status |-> 200, id |-> Len(catalog) + 1]
                     ELSE [status |-> MutationStatus(outcome)])
    /\ UNCHANGED <<now, ticks, shopifyAccessToken, tokenExpiresAt,
                   issued, started, b2Vars>>

\* metaobjectUpdate, from the edit and from the verify handler
UpdateResponse(r) ==
    /\ slot[r].pc = "catalog"
    /\ slot[r].kind \in {"update", "verify"}
    /\ \E outcome \in MutationOutcomes:
          LET id == slot[r].id
              node == [catalog[id] EXCEPT
                          !.fields = SetFields(@, slot[r].fields),
                          !.approved = @ \/ slot[r].kind = "verify"]
          IN  /\ catalog' = IF outcome \in {"ok", "lost"}
                            THEN [catalog EXCEPT ![id] = node]
                            ELSE catalog
              /\ Respond(r, slot[r], outcome,
                         IF outcome = "ok"
                         THEN [status |-> 200, id |-> node.id,
                               fields |-> FlattenFields(node.fields, EmptyObject)]
                         ELSE [status |-> MutationStatus(outcome)])
    /\ UNCHANGED <<now, ticks, shopifyAccessToken, tokenExpiresAt,
                   issued, started, b2Vars>>

\* the metaobjects query of the three read handlers
QueryResponse(r) ==
    /\ slot[r].pc = "catalog"
    /\ slot[r].kind \in ReadKinds
    /\ \E outcome \in UpstreamOutcomes:
          Respond(r, slot[r], outcome,
                  CASE slot[r].kind = "byType" ->
                         getLeaderboardEntries(slot[r].param, outcome, Query(ListingPageSize))
                    [] slot[r].kind = "byName" ->
                         getLeaderboardEntriesByName(slot[r].param, outcome, Query(ListingPageSize))
                    [] OTHER -> getUnverifiedSubmission(outcome, Query(AdminPageSize)))
    /\ UNCHANGED <<catalog, now, ticks, shopifyAccessToken, tokenExpiresAt,
                   issued, started, b2Vars>>

----------------------------------------------------------------------------
(* Spec: concurrent submit, edit, verify and listing requests against the   *)
(* catalog, with the token cache; the clock stands still                   *)

\* one record is there from an earlier submission, not yet reviewed
Init ==
    /\ InitTok
    /\ InitB2
    /\ catalog = <<Node(1, SubmitFields(FullForm))>>
    /\ resp = NoResp

Next ==
    \/ \E r \in Slots: SubmitChug(r)
    \/ \E r \in Slots: updateSubmission(r)
    \/ \E r \in Slots: verifySubmission(r)
    \/ \E r \in Slots: ListRequest(r, "byType")
    \/ \E r \in Slots: ListRequest(r, "byName")
    \/ \E r \in Slots: TokenResponse(r)
    \/ \E r \in Slots: CreateResponse(r)
    \/ \E r \in Slots: UpdateResponse(r)
    \/ \E r \in Slots: QueryResponse(r)

Spec == Init /\ [][Next]_vars

----------------------------------------------------------------------------
(* SpecToken: the token cache over time, under requests that scan the      *)
(* catalog for unverified records                                          *)

NextToken ==
    \/ \E r \in Slots: UnverifiedRequest(r)
    \/ \E r \in Slots: TokenResponse(r)
    \/ \E r \in Slots: QueryResponse(r)
    \/ Tick

SpecToken == Init /\ [][NextToken]_vars

----------------------------------------------------------------------------
(* index.js: the storage session and the handlers of /get-upload-url,      *)
(* /upload/:key and /delete/:key                                           *)

MaxB2Requests == 2

StorageOutcomes == {"ok", "throw"}

\* res.status(...).json(...) of a storage handler
B2Respond(r, s, out) ==
    /\ b2slot' = [b2slot EXCEPT ![r] = IdleB2]
    /\ resp' = [op |-> s.kind, key |-> s.key, out |-> out,
                authorizes |-> s.authorizes, deletes |-> s.deletes]

\* the handler of slot r sends its next storage call and waits
B2Await(r, s, call) ==
    /\ b2slot' = [b2slot EXCEPT ![r] = [s EXCEPT !.pc = call]]
    /\ resp' = NoResp

\* what each handler does after await authorizeB2(), up to its next
\* suspension; session is the value of authData it reads
AfterAuthorize(r, s, session) ==
    CASE s.kind = "issue" -> B2Respond(r, s, [status |-> 200, session |-> session])
      [] s.kind = "upload" -> B2Await(r, s, "getUploadUrl")
      [] s.kind = "delete" -> B2Await(r, s, "listFileNames")

\* mutant of NeedsAuthorize: the cached session is never looked at
NeedsAuthorizeAlways == TRUE

\* !authData
NeedsAuthorize == authData = NoSession

\* await authorizeB2(), up to its first suspension
authorizeB2(r, s) ==
    IF NeedsAuthorize
    THEN /\ authCalls' = authCalls + 1
         /\ B2Await(r, [s EXCEPT !.call = authCalls + 1, !.authorizes = @ + 1],
                    "authorize")
         /\ UNCHANGED authData
    ELSE /\ AfterAuthorize(r, s, authData)
         /\ UNCHANGED <<authData, authCalls>>

\* a storage request is accepted into the first free slot
CanStartB2(r) ==
    /\ b2slot[r].pc = "idle"
    /\ \A q \in Slots: q < r => b2slot[q].pc /= "idle"
    /\ b2started < MaxB2Requests

\* request bodies of /get-upload-url: each key missing, present or empty
UploadUrlBodies ==
    {[k \in ks |-> "text"] : ks \in SUBSET {"filename", "contentType"}}
    \cup {[filename |-> "", contentType |-> "text"]}

GetUploadUrlRoute(r) ==
    /\ CanStartB2(r)
    /\ b2started' = b2started + 1
    /\ \E body \in UploadUrlBodies:
          LET s == [IdleB2 EXCEPT !.kind = "issue", !.n = b2started + 1]
          IN  IF Falsy(body, "filename") \/ Falsy(body, "contentType")
              THEN /\ B2Respond(r, s, [status |-> 400])
                   /\ UNCHANGED <<authData, authCalls>>
              ELSE authorizeB2(r, s)
    /\ UNCHANGED <<catalog, tokVars, bucket>>

UploadRoute(r) ==
    /\ CanStartB2(r)
    /\ b2started' = b2started + 1
    /\ \E key \in Keys:
          authorizeB2(r, [IdleB2 EXCEPT !.kind = "upload", !.key = key,
                                        !.n = b2started + 1])
    /\ UNCHANGED <<catalog, tokVars, bucket>>

DeleteRoute(r) ==
    /\ CanStartB2(r)
    /\ b2started' = b2started + 1
    /\ \E key \in Keys:
          authorizeB2(r, [IdleB2 EXCEPT !.kind = "delete", !.key = key,
                                        !.n = b2started + 1])
    /\ UNCHANGED <<catalog, tokVars, bucket>>

\* b2.authorize() of request r settles: authData is assigned only when it
\* resolves
AuthorizeReturns(r) ==
    /\ b2slot[r].pc = "authorize"
    /\ \E outcome \in StorageOutcomes:
          IF outcome = "ok"
          THEN /\ authData' = b2slot[r].call
               /\ AfterAuthorize(r, b2slot[r], b2slot[r].call)
          ELSE /\ B2Respond(r, b2slot[r], [status |-> 500])
               /\ UNCHANGED authData
    /\ UNCHANGED <<catalog, tokVars, authCalls, b2started, bucket>>

GetUploadUrlReturns(r) ==
    /\ b2slot[r].pc = "getUploadUrl"
    /\ \E outcome \in StorageOutcomes:
          IF outcome = "ok"
          THEN B2Await(r, b2slot[r], "uploadFile")
          ELSE B2Respond(r, b2slot[r], [status |-> 500])
    /\ UNCHANGED <<catalog, tokVars, authData, authCalls, b2started, bucket>>

\* the upload stores a new version under the key
UploadFileReturns(r) ==
    /\ b2slot[r].pc = "uploadFile"
    /\ \E outcome \in StorageOutcomes:
          IF outcome = "ok"
          THEN /\ bucket' = [bucket EXCEPT ![b2slot[r].key] = @ \cup {b2slot[r].n}]
               /\ B2Respond(r, b2slot[r], [status |-> 200, session |-> authData])
          ELSE /\ B2Respond(r, b2slot[r], [status |-> 500])
               /\ UNCHANGED bucket
    /\ UNCHANGED <<catalog, tokVars, authData, authCalls, b2started>>

Max(S) == CHOOSE x \in S: \A y \in S: y <= x

Least(S) == CHOOSE x \in S: \A y \in S: x <= y

\* listFileNames({startFileName, maxFileCount: 1}): the newest version of
\* the first file name at or after startFileName
ListFileNames(startFileName) ==
    LET names == {k \in Keys: k >= startFileName /\ bucket[k] /= {}}
    IN  IF names = {} THEN <<>>
        ELSE <<[fileName |-> Least(names), fileId |-> Max(bucket[Least(names)])]>>

\* mutant of FindFile: the listed file is taken whatever its name
FindFileAnyName(files, key) ==
    IF files = <<>> THEN <<>> ELSE <<files[1]>>

\* files.find(f => f.fileName === key): <<>> models undefined
FindFile(files, key) ==
    LET found == {i \in 1..Len(files): files[i].fileName = key}
    IN  IF found = {} THEN <<>> ELSE <<files[Least(found)]>>

ListFileNamesReturns(r) ==
    /\ b2slot[r].pc = "listFileNames"
    /\ \E outcome \in StorageOutcomes:
          IF outcome = "ok"
          THEN LET file == FindFile(ListFileNames(b2slot[r].key), b2slot[r].key)
               IN  IF file = <<>>
                   THEN B2Respond(r, b2slot[r], [status |-> 404])
                   ELSE B2Await(r, [b2slot[r] EXCEPT !.file = file[1],
                                                     !.deletes = @ + 1],
                                "deleteFileVersion")
          ELSE B2Respond(r, b2slot[r], [status |-> 500])
    /\ UNCHANGED <<catalog, tokVars, authData, authCalls, b2started, bucket>>

\* the storage platform rejects the deletion of a version that is gone
DeleteFileVersionReturns(r) ==
    /\ b2slot[r].pc = "deleteFileVersion"
    /\ \E outcome \in StorageOutcomes:
          IF outcome = "ok" /\ b2slot[r].file.fileId \in bucket[b2slot[r].file.fileName]
          THEN /\ bucket' = [bucket EXCEPT ![b2slot[r].file.fileName] =
                                              @ \ {b2slot[r].file.fileId}]
               /\ B2Respond(r, b2slot[r], [status |-> 200])
          ELSE /\ B2Respond(r, b2slot[r], [status |-> 500])
               /\ UNCHANGED bucket
    /\ UNCHANGED <<catalog, tokVars, authData, authCalls, b2started>>

NextB2 ==
    \/ \E r \in Slots: GetUploadUrlRoute(r)
    \/ \E r \in Slots: UploadRoute(r)
    \/ \E r \in Slots: DeleteRoute(r)
    \/ \E r \in Slots: AuthorizeReturns(r)
    \/ \E r \in Slots: GetUploadUrlReturns(r)
    \/ \E r \in Slots: UploadFileReturns(r)
    \/ \E r \in Slots: ListFileNamesReturns(r)
    \/ \E r \in Slots: DeleteFileVersionReturns(r)

SpecB2 == Init /\ [][NextB2]_vars

----------------------------------------------------------------------------
(* Properties of the listing handlers *)

\* the value of field k of a catalog record is v
HasField(node, k, v) ==
    \E i \in 1..Len(node.fields):
        node.fields[i].key = k /\ node.fields[i].value = v

IsListing == resp.op \in {"byType", "byName"} /\ resp.out.status = 200

ListingKey == IF resp.op = "byType" THEN "leaderboard_type" ELSE "leaderboard_name"

Range(s) == {s[i] : i \in 1..Len(s)}

\* C1: a listing by type (by name) returns exactly the catalog records whose
\* leaderboard_type (leaderboard_name) equals the path parameter and whose
\* verified field is exactly "true", each once, and count is their number.
C1_ExactlyVerifiedMatches ==
    IsListing =>
        LET out == resp.out
            ids == {out.entries[i]["id"] : i \in 1..Len(out.entries)}
            want == {n \in Range(catalog) :
                        HasField(n, ListingKey, resp.param)
                        /\ HasField(n, "verified", "true")}
        IN  /\ ids = {n.id : n \in want}
            /\ Len(out.entries) = Cardinality(ids)
            /\ out.count = Len(out.entries)

\* a listing returned an entry while the catalog holds a record of the same
\* board whose verified is "false", another string, or missing
C1_Witness ==
    /\ IsListing
    /\ resp.out.count >= 1
    /\ \E n \in Range(catalog):
          HasField(n, ListingKey, resp.param) /\ ~HasField(n, "verified", "true")
    /\ \E n \in Range(catalog):
          HasField(n, ListingKey, resp.param) /\ HasField(n, "verified", "false")

\* time_s of a returned entry, parsed as a number
ParsedTime(entry) == parseFloat(TimeArg(entry))

\* C2: the returned order is non-decreasing in parsed time_s, and entries
\* whose time_s is missing or unparsable come after all entries with a
\* valid number (0 included).
C2_SortedByParsedTime ==
    IsListing =>
        \A i, j \in 1..Len(resp.out.entries):
            i < j =>
                LET a == ParsedTime(resp.out.entries[i])
                    b == ParsedTime(resp.out.entries[j])
                IN  /\ (a.kind = "nan" => b.kind = "nan")
                    /\ (a.kind = "num" /\ b.kind = "num" => a.val <= b.val)

\* C10: when the scan's fetch succeeds, the handler answers 404 exactly when
\* no fetched record has verified = "false", and otherwise returns the id,
\* handle and flattened fields of the first such record in upstream order.
C10_FirstUnverified ==
    (resp.op = "unverified" /\ resp.upstream = "ok") =>
        LET out == resp.out
            fetched == Query(AdminPageSize)
            cand == {i \in 1..Len(fetched) : HasField(fetched[i], "verified", "false")}
        IN  /\ out.status \in {200, 404}
            /\ out.status = 404 <=> cand = {}
            /\ out.status = 200 =>
                  \E i \in cand:
                      /\ \A j \in cand: i <= j
                      /\ out.id = fetched[i].id
                      /\ out.handle = fetched[i].handle
                      /\ DOMAIN out.fields = {f.key : f \in Range(fetched[i].fields)}
                      /\ \A f \in Range(fetched[i].fields): out.fields[f.key] = f.value

\* the scan skipped records without verified = "false" (missing, "true", "TRUE")
\* and returned a later one
C10_Witness ==
    /\ resp.op = "unverified"
    /\ resp.upstream = "ok"
    /\ resp.out.status = 200
    /\ resp.out.id >= 3
    /\ \E i \in 1..Len(catalog): ~HasField(catalog[i], "verified", "true")
                                  /\ ~HasField(catalog[i], "verified", "false")
                                  /\ i < resp.out.id

----------------------------------------------------------------------------
(* Properties of the token cache *)

\* request r calls getShopifyAccessToken in this step
CallsGetter(r) == slot[r].pc = "idle" /\ slot'[r].pc /= "idle"

\* an exchange has succeeded and the cached expiry is still ahead
WithinWindow == issued > 0 /\ now < tokenExpiresAt

\* C3: a call of getShopifyAccessToken made after a successful exchange and
\* while now < expiresAt returns the cached token and sends no request to
\* the token endpoint; any other call sends exactly one, and no call sends
\* a second one later.
C3_CachedWithinWindow ==
    [][\A r \in Slots:
          /\ CallsGetter(r) =>
                IF WithinWindow
                THEN /\ slot'[r].pc = "catalog"
                     /\ slot'[r].req.exchanges = 0
                     /\ resp'.op = "send"
                     /\ resp'.token = shopifyAccessToken
                     /\ issued' = issued
                ELSE /\ slot'[r].pc = "exchange"
                     /\ slot'[r].req.exchanges = 1
          /\ (slot[r].pc /= "idle" /\ slot'[r].pc /= "idle") =>
                slot'[r].req.exchanges = slot[r].req.exchanges
          /\ (slot[r].pc /= "idle" /\ slot'[r].pc = "idle") =>
                resp'.req.exchanges = slot[r].req.exchanges]_vars

\* a request made later than the exchange got the cached token without one
C3_Witness ==
    /\ issued = 1
    /\ now > 0
    /\ now < tokenExpiresAt
    /\ resp.op = "send"
    /\ ~resp.lease.exchanged
    /\ \E r \in Slots: slot[r].pc = "catalog" /\ slot[r].req.exchanges = 0

\* C8: no catalog request is sent with a token at a time later than the
\* token's real expiry (issue time + expires_in).
C8_NeverSentPastExpiry ==
    resp.op = "send" => now <= resp.token.exp

\* an expiry that is not a date: Date.now() + (undefined - 300) * 1000
InvalidDate == NullDate - 1

----------------------------------------------------------------------------
(* Properties of the submit and admin handlers *)

\* the values a record carries under key k
ValuesOf(node, k) ==
    {node.fields[i].value : i \in {j \in 1..Len(node.fields) : node.fields[j].key = k}}

HasKey(fields, k) == \E i \in 1..Len(fields): fields[i].key = k

\* the catalog answers the edit request of slot r in this step
EditAnswered(r) ==
    slot[r].pc = "catalog" /\ slot[r].kind = "update" /\ slot'[r].pc = "idle"

\* C4: the field list an edit sends to the update mutation never has the key
\* verified, and applying the edit leaves every record's verified value as
\* it was.
C4_EditKeepsVerified ==
    [][\A r \in Slots:
          /\ slot'[r].kind = "update" => ~HasKey(slot'[r].fields, "verified")
          /\ EditAnswered(r) =>
                /\ Len(catalog') = Len(catalog)
                /\ \A i \in 1..Len(catalog):
                      ValuesOf(catalog'[i], "verified") = ValuesOf(catalog[i], "verified")]_vars

\* an edit whose body named verified was applied, changed the record, and
\* the record is still unverified
C4_Witness ==
    /\ resp.op = "update"
    /\ resp.out.status = 200
    /\ resp.req.hadVerified
    /\ HasField(catalog[resp.id], "handle_text", "edited")
    /\ ValuesOf(catalog[resp.id], "verified") = {"false"}

\* C5: a record has verified = "false" from its creation until a verify
\* request for it has been applied, whatever submit and edit requests
\* contain, and a public listing only returns records for which one has.
C5_VisibleOnlyAfterVerify ==
    /\ \A i \in 1..Len(catalog):
          ~catalog[i].approved => ValuesOf(catalog[i], "verified") = {"false"}
    /\ (resp.op \in {"byType", "byName"} /\ resp.out.status = 200) =>
          \A i \in 1..Len(resp.out.entries):
              catalog[resp.out.entries[i]["id"]].approved

\* a listing returned a record after its verify request was applied
C5_Witness ==
    /\ resp.op = "byType"
    /\ resp.out.status = 200
    /\ resp.out.count >= 1
    /\ catalog[resp.out.entries[1]["id"]].approved

\* C6 as stated: a submit with an absent field is answered 400 without a
\* token exchange or a create mutation, and a submit with all fields present
\* invokes the create mutation exactly once.
C6_SubmitValidation ==
    (resp.op = "submit") =>
        /\ resp.req.absent =>
              resp.out.status = 400 /\ resp.req.exchanges = 0 /\ resp.req.calls = 0
        /\ ~resp.req.absent => resp.req.calls = 1

\* C6 amended: a submit with an absent or empty required field, or without a
\* non-empty video_url or video_upload_url, is answered 400 without a token
\* exchange or a create mutation; any other submit invokes the create
\* mutation exactly once if it gets a token, and is answered 500 without
\* invoking it if the token exchange fails.
C6_SubmitValidationOrTokenFailure ==
    (resp.op = "submit") =>
        /\ (resp.req.absent \/ resp.req.blank) =>
              resp.out.status = 400 /\ resp.req.exchanges = 0 /\ resp.req.calls = 0
        /\ ~(resp.req.absent \/ resp.req.blank) =>
              IF resp.req.failure = "none"
              THEN resp.req.calls = 1 /\ resp.req.exchanges <= 1
              ELSE resp.out.status = 500 /\ resp.req.calls = 0
                   /\ resp.req.exchanges = 1

\* a submit without a required field was answered 400 before any token
\* exchange had been made
C6_Witness ==
    /\ resp.op = "submit"
    /\ resp.req.absent
    /\ resp.out.status = 400
    /\ issued = 0
    /\ \A r \in Slots: slot[r].pc = "idle"

----------------------------------------------------------------------------
(* Properties of the storage session *)

\* C7 as stated: over the life of the process the storage authorize call is
\* issued at most once, whatever the interleaving of the storage requests.
C7_AuthorizeOnce == authCalls <= 1

\* a storage request gets past validation and calls authorizeB2 in this step
CallsAuthorizeB2 ==
    /\ b2started' = b2started + 1
    /\ ~(resp'.op = "issue" /\ resp'.out.status = 400)

\* C7 amended: a call of authorizeB2 made while a session is cached returns
\* that session without an authorize call; every call made while none is
\* cached (before the first authorize has completed, or after one has
\* failed) issues one authorize call; nothing else issues one.
C7_AuthorizeUnlessCached ==
    [][/\ (CallsAuthorizeB2 /\ authData /= NoSession) =>
             /\ authCalls' = authCalls
             /\ authData' = authData
             /\ \A r \in Slots:
                   b2slot[r].pc = "idle" => b2slot'[r].pc /= "authorize"
             /\ resp'.op = "issue" => resp'.out.session = authData
       /\ (CallsAuthorizeB2 /\ authData = NoSession) =>
             /\ authCalls' = authCalls + 1
             /\ \E r \in Slots: b2slot[r].pc = "idle" /\ b2slot'[r].pc = "authorize"
       /\ ~CallsAuthorizeB2 => authCalls' = authCalls]_vars

\* the second request found the session of the first and did not authorize
C7_Witness ==
    /\ resp.op = "issue"
    /\ resp.out.status = 200
    /\ resp.authorizes = 0
    /\ resp.out.session = 1
    /\ authCalls = 1
    /\ b2started = 2

----------------------------------------------------------------------------
(* Properties of the failure paths *)

\* the token acquisition or the catalog call of the answered request failed
UpstreamFailed ==
    resp.req.failure /= "none" \/ resp.upstream \in {"errors", "throw"}

\* C11: GET /admin/unverified answers 500 whenever the token acquisition or
\* the catalog call fails (an errors payload included), answers 404 only
\* when the fetch succeeded and no fetched record has verified = "false",
\* and produces no status other than 200, 404 and 500.
C11_UpstreamFailureIs500 ==
    (resp.op = "unverified") =>
        /\ UpstreamFailed => resp.out.status = 500
        /\ resp.out.status \in {200, 404, 500}
        /\ resp.out.status = 404 =>
              /\ ~UpstreamFailed
              /\ \A i \in 1..Len(catalog): ~HasField(catalog[i], "verified", "false")

----------------------------------------------------------------------------
(* Properties of DELETE /delete/:key *)

\* request r awaits listFileNames before the step and has its answer after it
ListAnswered(r) == b2slot[r].pc = "listFileNames" /\ b2slot'[r].pc /= "listFileNames"

\* C12: the listing returns at most one file, the first at or after key; a
\* listing without a file named exactly key is answered 404 without a
\* delete-file-version call; otherwise delete-file-version is called once,
\* with the name and the id of the file named key; and a version is removed
\* from the bucket only by such a call, under the name key of its request.
C12_DeleteExactMatchOnly ==
    [][/\ \A r \in Slots:
             /\ b2slot[r].kind = "delete" => Len(ListFileNames(b2slot[r].key)) <= 1
             /\ ListAnswered(r) =>
                   IF b2slot'[r].pc = "deleteFileVersion"
                   THEN /\ b2slot'[r].deletes = 1
                        /\ b2slot'[r].file \in
                              {ListFileNames(b2slot[r].key)[i] :
                                  i \in 1..Len(ListFileNames(b2slot[r].key))}
                        /\ b2slot'[r].file.fileName = b2slot[r].key
                        /\ b2slot'[r].file.fileId \in bucket[b2slot[r].key]
                   ELSE /\ b2slot'[r].pc = "idle"
                        /\ resp'.op = "delete"
                        /\ resp'.deletes = 0
                        /\ resp'.out.status \in {404, 500}
                        /\ resp'.out.status = 404 => bucket[b2slot[r].key] = {}
                        /\ bucket' = bucket
             /\ (b2slot[r].pc = "deleteFileVersion" /\ b2slot'[r].pc /= "deleteFileVersion") =>
                   /\ b2slot'[r].pc = "idle"
                   /\ resp'.deletes = 1
       /\ (resp'.op = "delete" /\ resp'.out.status = 404) =>
             \E r \in Slots: ListAnswered(r) /\ b2slot'[r].pc = "idle"
       /\ \A k \in Keys:
             (bucket[k] \ bucket'[k] /= {}) =>
                \E r \in Slots:
                   /\ b2slot[r].pc = "deleteFileVersion"
                   /\ b2slot'[r].pc = "idle"
                   /\ b2slot[r].key = k
                   /\ bucket[k] \ bucket'[k] = {b2slot[r].file.fileId}
                   /\ \A j \in Keys \ {k}: bucket'[j] = bucket[j]]_vars

\* a delete for a key without a file, while a file with a later name is
\* listed, was answered 404 and the listed file is still there
C12_Witness ==
    /\ resp.op = "delete"
    /\ resp.key = 1
    /\ resp.out.status = 404
    /\ resp.deletes = 0
    /\ bucket[1] = {}
    /\ bucket[2] /= {}

----------------------------------------------------------------------------
(* Properties of a failed token exchange *)

\* the exchange of request r fails in this step
ExchangeFails(r) == slot[r].pc = "exchange" /\ slot'[r].pc = "idle"

CacheWritten ==
    shopifyAccessToken' /= shopifyAccessToken \/ tokenExpiresAt' /= tokenExpiresAt

\* C13: when the exchange of a request is answered with a non-success
\* status, the request has made exactly one exchange attempt and no catalog
\* request, it is answered 500, and the step leaves the cached token and
\* expiry as they were; the cache is written only by an exchange that
\* succeeds.
C13_FailedExchangeLeavesCache ==
    [][/\ \A r \in Slots:
             (ExchangeFails(r) /\ resp'.req.failure = "status") =>
                /\ resp'.req.exchanges = 1
                /\ resp'.req.calls = 0
                /\ resp'.out.status = 500
                /\ resp'.op = slot[r].kind
                /\ shopifyAccessToken' = shopifyAccessToken
                /\ tokenExpiresAt' = tokenExpiresAt
                /\ issued' = issued
                /\ catalog' = catalog
       /\ CacheWritten =>
             /\ issued' = issued + 1
             /\ \E r \in Slots: slot[r].pc = "exchange" /\ slot'[r].pc = "catalog"]_vars

\* the exchange of a request failed with a status while the cache held the
\* token of a concurrent request's exchange, and the cache still holds it
C13_Witness ==
    /\ resp.op \in {"submit", "update", "verify", "byType", "byName", "unverified"}
    /\ resp.req.failure = "status"
    /\ resp.req.exchanges = 1
    /\ resp.out.status = 500
    /\ issued = 1
    /\ shopifyAccessToken.id = 1
    /\ tokenExpiresAt /= NullDate

----------------------------------------------------------------------------
(* Properties of concurrent refreshes *)

\* an exchange completes successfully in this step
ExchangeCompletes == issued' = issued + 1

\* the expiry an exchange that completes now with reply e caches
ExpiryOf(e) == now + ((IF e.present /\ e.val /= 0 THEN e.val ELSE 86399) - 300)

\* C14: the cached token and the cached expiry are both unset until an
\* exchange has completed; every step that writes one of them writes both,
\* with the token and the reply of the one exchange that completes in that
\* step; and the cache always holds the pair of the exchange that completed
\* last, also once no refresh is in flight.
C14_PairFromLastExchange ==
    [][/\ (shopifyAccessToken = NoToken) = (issued = 0)
       /\ (tokenExpiresAt = NullDate) = (issued = 0)
       /\ shopifyAccessToken.id = issued
       /\ CacheWritten => ExchangeCompletes
       /\ ExchangeCompletes =>
             /\ resp'.op = "send"
             /\ resp'.lease.exchanged
             /\ shopifyAccessToken' = resp'.token
             /\ shopifyAccessToken'.id = issued'
             /\ tokenExpiresAt' = ExpiryOf(resp'.lease.e)
       /\ shopifyAccessToken'.id = issued']_vars

\* two requests refreshed concurrently, both exchanges have completed at
\* different times, and the cache holds the pair of the second
C14_Witness ==
    /\ issued = 2
    /\ now > 0
    /\ \A r \in 1..2: slot[r].pc = "catalog" /\ slot[r].req.exchanges = 1
    /\ \A r \in Slots: slot[r].pc /= "exchange"
    /\ resp.op = "send"
    /\ resp.lease.exchanged
    /\ shopifyAccessToken = resp.token
    /\ shopifyAccessToken.id = 2
    /\ tokenExpiresAt = ExpiryOf(resp.lease.e)

====
